---- MODULE Spec2Model ----
(***************************************************************************)
(* A model of the propositional-logic deduction engine: the Expression and *)
(* Premise parsers and substitution (expressions.rs, premises.rs), and the *)
(* string-based Deduction with its ValueMap (deductions.rs,                *)
(* propositions.rs, main.rs, history.rs).                                  *)
(*                                                                         *)
(* A Rust String is a sequence of chars; a char is written as a one-char   *)
(* TLA+ string, the four non-ASCII operator glyphs as "U+00AC" (not),      *)
(* "U+2227" (and), "U+2228" (or) and "U+2192" (implies).  Option<T> is a   *)
(* sequence of length at most one: <<>> is None and <<v>> is Some(v).      *)
(***************************************************************************)
EXTENDS Integers, Sequences, FiniteSets, TLC

\* ------------------------------------------------------------------ bounds

\* Longest formula string enumerated exhaustively over Alphabet.
MaxLen == 4

\* Most premises of an enumerated Deduction.
MaxPremises == 3

\* ------------------------------------------------------- chars and strings

LowerAZ ==
  {"a", "b", "c", "d", "e", "f", "g", "h", "i", "j", "k", "l", "m",
   "n", "o", "p", "q", "r", "s", "t", "u", "v", "w", "x", "y", "z"}

\* char::len_utf8: the number of bytes of a char in a Rust String.
len_utf8(c) ==
  IF c = "U+00AC" THEN 2
  ELSE IF c \in {"U+2227", "U+2228", "U+2192"} THEN 3
  ELSE 1

\* str::len: the length of a String in BYTES.
RECURSIVE str_len(_)
str_len(s) ==
  IF s = <<>> THEN 0 ELSE len_utf8(Head(s)) + str_len(Tail(s))

\* ----------------------------------------------------------- Expression AST

ExpressionNode_Proposition(c) == [kind |-> "Proposition", id |-> c]
ExpressionNode_TruthValue(b) == [kind |-> "TruthValue", value |-> b]
ExpressionNode_Operator(o) == [kind |-> "Operator", op |-> o]
ExpressionNode_Subexpression(e) == [kind |-> "Subexpression", expr |-> e]

\* Expression::new
Expression_new(origin_string, nodes) ==
  [kind |-> "Expression", origin_string |-> origin_string, nodes |-> nodes]

\* panic!("Invalid character in expression: '{}'", c): the message carries
\* the character and nothing else.
ExpressionPanic(c) ==
  [kind |-> "Panic", message |-> "Invalid character in expression", c |-> c]

\* get_subexpression_string, as a scan from position k with the string
\* collected so far and the depth so far.
RECURSIVE SubexpressionScan(_, _, _, _)
SubexpressionScan(expression_string, k, depth, subexpression_string) ==
  IF k > Len(expression_string) THEN subexpression_string
  ELSE
    LET character == expression_string[k]
        d == IF character = "(" THEN depth + 1
             ELSE IF character = ")" THEN depth - 1
             ELSE depth
    IN  IF d = 0 THEN subexpression_string
        ELSE IF d = 1 /\ character = "(" THEN
          SubexpressionScan(expression_string, k + 1, d, subexpression_string)
        ELSE
          SubexpressionScan(expression_string, k + 1, d,
                            Append(subexpression_string, character))

get_subexpression_string(expression_string) ==
  SubexpressionScan(expression_string, 1, 0, <<>>)

\* Expression::parse_str: ExpressionScan is the while-let loop from char
\* position k with the nodes pushed so far.  After a '(' at position k the
\* iterator has yielded k chars; nth(n) then drops n chars and yields one
\* more, so the next char looked at is at position k + n + 2, where n is
\* subexpression_string.len(), a length in bytes.
RECURSIVE Expression_parse_str(_)
RECURSIVE ExpressionScan(_, _, _)
ExpressionScan(expression_string, k, nodes) ==
  IF k > Len(expression_string) THEN
    Expression_new(expression_string, nodes)
  ELSE
    LET c == expression_string[k] IN
    IF c = " " THEN ExpressionScan(expression_string, k + 1, nodes)
    ELSE IF c = "(" THEN
      LET subexpression_string ==
            get_subexpression_string(
              SubSeq(expression_string, k, Len(expression_string)))
          sub == Expression_parse_str(subexpression_string)
      IN  IF sub.kind = "Panic" THEN sub
          ELSE ExpressionScan(expression_string,
                              k + str_len(subexpression_string) + 2,
                              Append(nodes, ExpressionNode_Subexpression(sub)))
    ELSE IF c = ")" THEN ExpressionScan(expression_string, k + 1, nodes)
    ELSE IF c \in {"U+00AC", "!"} THEN
      ExpressionScan(expression_string, k + 1, Append(nodes, ExpressionNode_Operator("Not")))
    ELSE IF c \in {"U+2227", "&"} THEN
      ExpressionScan(expression_string, k + 1, Append(nodes, ExpressionNode_Operator("And")))
    ELSE IF c \in {"U+2228", "|"} THEN
      ExpressionScan(expression_string, k + 1, Append(nodes, ExpressionNode_Operator("Or")))
    ELSE IF c \in {"U+2192", ">"} THEN
      ExpressionScan(expression_string, k + 1,
                     Append(nodes, ExpressionNode_Operator("Implies")))
    ELSE IF c \in LowerAZ THEN
      ExpressionScan(expression_string, k + 1, Append(nodes, ExpressionNode_Proposition(c)))
    ELSE ExpressionPanic(c)

Expression_parse_str(expression_string) ==
  ExpressionScan(expression_string, 1, <<>>)

\* ValueMap::get_value(id): the entry of a seeded identifier (<<>> while it is
\* unknown).  deductions.rs defines no get_value; this is the lookup of the
\* design's ValueMap, used only on identifiers the map was seeded with.
get_value(proposition_values, proposition) ==
  proposition_values[proposition]

\* Expression::substitute without the Subexpression arm: nested propositions
\* are left as they are.
Expression_substitute_TopLevelOnly(self, proposition_values) ==
  [self EXCEPT !.nodes =
     [i \in 1..Len(self.nodes) |->
        LET node == self.nodes[i] IN
        IF node.kind = "Proposition" THEN
          IF get_value(proposition_values, node.id) # <<>> THEN
            ExpressionNode_TruthValue(
              get_value(proposition_values, node.id)[1])
          ELSE node
        ELSE node]]

\* Expression::substitute
RECURSIVE Expression_substitute(_, _)
Expression_substitute(self, proposition_values) ==
  [self EXCEPT !.nodes =
     [i \in 1..Len(self.nodes) |->
        LET node == self.nodes[i] IN
        IF node.kind = "Proposition" THEN
          IF get_value(proposition_values, node.id) # <<>> THEN
            ExpressionNode_TruthValue(get_value(proposition_values, node.id)[1])
          ELSE node
        ELSE IF node.kind = "Subexpression" THEN
          ExpressionNode_Subexpression(
            Expression_substitute(node.expr, proposition_values))
        ELSE node]]

\* impl Display for Operator
Operator_fmt(operator) ==
  IF operator = "Not" THEN <<"U+00AC">>
  ELSE IF operator = "And" THEN <<"U+2227">>
  ELSE IF operator = "Or" THEN <<"U+2228">>
  ELSE <<"U+2192">>

\* impl Display for bool
bool_fmt(value) ==
  IF value THEN <<"t", "r", "u", "e">> ELSE <<"f", "a", "l", "s", "e">>

\* impl Display for Expression, impl Display for ExpressionNode.
\* ExpressionJoin is the for loop of Expression::fmt from node i (counted
\* from 1) with the text written so far: a space goes before every node but
\* the first and the one after a Not operator.
RECURSIVE Expression_fmt(_)
RECURSIVE ExpressionNode_fmt(_)
RECURSIVE ExpressionJoin(_, _, _)
ExpressionNode_fmt(node) ==
  IF node.kind = "Proposition" THEN <<node.id>>
  ELSE IF node.kind = "TruthValue" THEN bool_fmt(node.value)
  ELSE IF node.kind = "Operator" THEN Operator_fmt(node.op)
  ELSE <<"(">> \o Expression_fmt(node.expr) \o <<")">>

ExpressionJoin(nodes, i, f) ==
  IF i > Len(nodes) THEN f
  ELSE IF i = 1 THEN
    ExpressionJoin(nodes, i + 1, f \o ExpressionNode_fmt(nodes[i]))
  ELSE IF nodes[i - 1] = ExpressionNode_Operator("Not") THEN
    ExpressionJoin(nodes, i + 1, f \o ExpressionNode_fmt(nodes[i]))
  ELSE
    ExpressionJoin(nodes, i + 1, f \o <<" ">> \o ExpressionNode_fmt(nodes[i]))

Expression_fmt(self) == ExpressionJoin(self.nodes, 1, <<>>)

\* -------------------------------------------------------------- Premise AST

PremiseNode_Proposition(c) == [kind |-> "Proposition", id |-> c]
PremiseNode_TruthValue(b) == [kind |-> "TruthValue", value |-> b]
PremiseNode_Operator(o) == [kind |-> "Operator", op |-> o]
PremiseNode_Negation == [kind |-> "Negation"]
PremiseNode_Subpremise(p) == [kind |-> "Subpremise", premise |-> p]

\* Premise::new
Premise_new(nodes) == [kind |-> "Premise", nodes |-> nodes]

\* panic!("Invalid character in premise: '{}'", c)
PremisePanic(c) ==
  [kind |-> "Panic", message |-> "Invalid character in premise", c |-> c]

\* get_subpremise_string, as a scan from position k.
RECURSIVE SubpremiseScan(_, _, _, _)
SubpremiseScan(premise_string, k, depth, subpremise_string) ==
  IF k > Len(premise_string) THEN subpremise_string
  ELSE
    LET character == premise_string[k]
        d == IF character = "(" THEN depth + 1
             ELSE IF character = ")" THEN depth - 1
             ELSE depth
    IN  IF d = 0 THEN subpremise_string
        ELSE IF d = 1 /\ character = "(" THEN
          SubpremiseScan(premise_string, k + 1, d, subpremise_string)
        ELSE
          SubpremiseScan(premise_string, k + 1, d,
                         Append(subpremise_string, character))

get_subpremise_string(premise_string) ==
  SubpremiseScan(premise_string, 1, 0, <<>>)

\* Premise::parse_str: the loop of Expression::parse_str, pushing Negation
\* for the not operator.
RECURSIVE Premise_parse_str(_)
RECURSIVE PremiseScan(_, _, _)
PremiseScan(premise_string, k, nodes) ==
  IF k > Len(premise_string) THEN Premise_new(nodes)
  ELSE
    LET c == premise_string[k] IN
    IF c = " " THEN PremiseScan(premise_string, k + 1, nodes)
    ELSE IF c = "(" THEN
      LET subpremise_string ==
            get_subpremise_string(
              SubSeq(premise_string, k, Len(premise_string)))
          sub == Premise_parse_str(subpremise_string)
      IN  IF sub.kind = "Panic" THEN sub
          ELSE PremiseScan(premise_string,
                           k + str_len(subpremise_string) + 2,
                           Append(nodes, PremiseNode_Subpremise(sub)))
    ELSE IF c = ")" THEN PremiseScan(premise_string, k + 1, nodes)
    ELSE IF c \in {"U+00AC", "!"} THEN
      PremiseScan(premise_string, k + 1, Append(nodes, PremiseNode_Negation))
    ELSE IF c \in {"U+2227", "&"} THEN
      PremiseScan(premise_string, k + 1,
                  Append(nodes, PremiseNode_Operator("And")))
    ELSE IF c \in {"U+2228", "|"} THEN
      PremiseScan(premise_string, k + 1,
                  Append(nodes, PremiseNode_Operator("Or")))
    ELSE IF c \in {"U+2192", ">"} THEN
      PremiseScan(premise_string, k + 1,
                  Append(nodes, PremiseNode_Operator("Implies")))
    ELSE IF c \in LowerAZ THEN
      PremiseScan(premise_string, k + 1,
                  Append(nodes, PremiseNode_Proposition(c)))
    ELSE PremisePanic(c)

Premise_parse_str(premise_string) ==
  PremiseScan(premise_string, 1, <<>>)

\* PremiseNode::is_proposition: Option<char>
is_proposition(node) ==
  IF node.kind = "Proposition" THEN <<node.id>> ELSE <<>>

\* PremiseNode::is_negation
is_negation(node) == node.kind = "Negation"

\* get_value_if_root_proposition without the is_negation guard on the
\* two-node arm (the length test alone, as in Deduction::update_actual_values).
get_value_if_root_proposition_AnyFirstNode(self) ==
  IF Len(self.nodes) = 1 THEN
    IF is_proposition(self.nodes[1]) = <<>> THEN <<>>
    ELSE << <<is_proposition(self.nodes[1])[1], TRUE>> >>
  ELSE IF Len(self.nodes) = 2 THEN
    IF is_proposition(self.nodes[2]) = <<>> THEN <<>>
    ELSE << <<is_proposition(self.nodes[2])[1], FALSE>> >>
  ELSE <<>>

\* Premise::get_value_if_root_proposition: Option<(char, bool)>.  The `?`
\* returns None when is_proposition() is None.
get_value_if_root_proposition(self) ==
  IF Len(self.nodes) = 1 THEN
    IF is_proposition(self.nodes[1]) = <<>> THEN <<>>
    ELSE << <<is_proposition(self.nodes[1])[1], TRUE>> >>
  ELSE IF Len(self.nodes) = 2 /\ is_negation(self.nodes[1]) THEN
    IF is_proposition(self.nodes[2]) = <<>> THEN <<>>
    ELSE << <<is_proposition(self.nodes[2])[1], FALSE>> >>
  ELSE <<>>

\* Premise::substitute
RECURSIVE Premise_substitute(_, _)
Premise_substitute(self, proposition_values) ==
  [self EXCEPT !.nodes =
     [i \in 1..Len(self.nodes) |->
        LET node == self.nodes[i] IN
        IF node.kind = "Proposition" THEN
          IF get_value(proposition_values, node.id) # <<>> THEN
            PremiseNode_TruthValue(get_value(proposition_values, node.id)[1])
          ELSE node
        ELSE IF node.kind = "Subpremise" THEN
          PremiseNode_Subpremise(
            Premise_substitute(node.premise, proposition_values))
        ELSE node]]

\* ------------------------------------------- Proposition, ValueMap, Deduction

\* Proposition::from_str
Proposition_from_str(proposition_string) ==
  [proposition_string |-> proposition_string]

\* Proposition::get_string
get_string(proposition) == proposition.proposition_string

\* ValueMap::new: the empty HashMap.
ValueMap_new == [c \in {} |-> <<>>]

\* ValueMap::set_value: HashMap::insert, adding the key or replacing its value.
set_value(values, proposition, value) ==
  [c \in DOMAIN values \cup {proposition} |->
     IF c = proposition THEN value ELSE values[c]]

\* char::is_lowercase, on the chars of the model.
is_lowercase(character) == character \in LowerAZ

\* ValueMap::from_proposition_stack: every lowercase char of every
\* proposition string, set to None.
from_proposition_stack(proposition_stack) ==
  [c \in {character \in UNION {{get_string(proposition_stack[i])[k] :
                                  k \in 1..Len(get_string(proposition_stack[i]))} :
                               i \in 1..Len(proposition_stack)} :
            is_lowercase(character)} |-> <<>>]

\* Deduction::new
Deduction_new ==
  [proposition_stack |-> <<>>, proposition_values |-> ValueMap_new]

\* Deduction::from_strs
from_strs(propositions) ==
  LET proposition_stack ==
        [i \in 1..Len(propositions) |-> Proposition_from_str(propositions[i])]
  IN  [proposition_stack |-> proposition_stack,
       proposition_values |-> from_proposition_stack(proposition_stack)]

\* "T" / "F" as the replacement text, one char for one char (the spelling the
\* commented-out trim of deductions.rs looks for).
ValueText_OneLetter(value) ==
  IF value THEN <<"T">> ELSE <<"F">>

\* "TRUE" / "FALSE", the text a known value is replaced by.
ValueText(value) ==
  IF value THEN <<"T", "R", "U", "E">> ELSE <<"F", "A", "L", "S", "E">>

\* str::replace(char, &str): every occurrence of the char by the text.
RECURSIVE str_replace(_, _, _)
str_replace(string, character, text) ==
  IF string = <<>> THEN <<>>
  ELSE (IF Head(string) = character THEN text ELSE <<Head(string)>>)
       \o str_replace(Tail(string), character, text)

\* Proposition::substitute, over the entries of the HashMap in the order
\* `order` its iterator yields the keys: entries that are None change nothing.
RECURSIVE Proposition_substitute(_, _, _)
Proposition_substitute(proposition, values, order) ==
  IF order = <<>> THEN proposition
  ELSE
    LET proposition_char == Head(order)
        value == values[proposition_char]
    IN  Proposition_substitute(
          IF value # <<>> THEN
            [proposition EXCEPT !.proposition_string =
               str_replace(@, proposition_char, ValueText(value[1]))]
          ELSE proposition,
          values, Tail(order))

\* The orders in which a HashMap may yield its keys: any order.
RECURSIVE OrdersOf(_)
OrdersOf(keys) ==
  IF keys = {} THEN {<<>>}
  ELSE UNION {{<<c>> \o order : order \in OrdersOf(keys \ {c})} : c \in keys}

IterationOrders(values) == OrdersOf(DOMAIN values)

\* substitute_all that seeds the ValueMap anew from the stack it has
\* rewritten: the entries of the propositions just replaced are gone.
substitute_all_Reseeding(self, order) ==
  LET proposition_stack ==
        [i \in 1..Len(self.proposition_stack) |->
           Proposition_substitute(self.proposition_stack[i],
                                  self.proposition_values, order)]
  IN  [proposition_stack |-> proposition_stack,
       proposition_values |-> from_proposition_stack(proposition_stack)]

\* Deduction::substitute_all
substitute_all(self, order) ==
  [self EXCEPT !.proposition_stack =
     [i \in 1..Len(self.proposition_stack) |->
        Proposition_substitute(self.proposition_stack[i],
                               self.proposition_values, order)]]

\* Vec::swap_remove(index) in the place of Vec::remove: the last element
\* takes the removed one's place.
Vec_swap_remove(vec, index) ==
  IF index + 1 = Len(vec) THEN SubSeq(vec, 1, index)
  ELSE SubSeq(vec, 1, index) \o <<vec[Len(vec)]>>
       \o SubSeq(vec, index + 2, Len(vec) - 1)

\* Vec::remove(index), index counted from 0; the caller has checked
\* index < len.
Vec_remove(vec, index) ==
  SubSeq(vec, 1, index) \o SubSeq(vec, index + 2, Len(vec))

\* for i in removal_indexes { vec.remove(i) }: Vec::remove panics when the
\* index is not below the length, and the removals before it have happened.
RECURSIVE RemoveEach(_, _)
RemoveEach(vec, removal_indexes) ==
  IF removal_indexes = <<>> THEN [vec |-> vec, panicked |-> FALSE]
  ELSE IF Head(removal_indexes) >= Len(vec) THEN
    [vec |-> vec, panicked |-> TRUE]
  ELSE RemoveEach(Vec_remove(vec, Head(removal_indexes)),
                  Tail(removal_indexes))

\* The first loop of update_actual_values from the premise at position i
\* (counted from 1): the ValueMap written so far and the removal indexes
\* (counted from 0) pushed so far.  The match is on the byte length.
RECURSIVE FindActualValues(_, _, _, _)
FindActualValues(proposition_stack, i, values, removal_indexes) ==
  IF i > Len(proposition_stack) THEN
    [values |-> values, removal_indexes |-> removal_indexes]
  ELSE
    LET proposition_string == get_string(proposition_stack[i]) IN
    IF str_len(proposition_string) = 1 THEN
      FindActualValues(proposition_stack, i + 1,
                       set_value(values, proposition_string[1], <<TRUE>>),
                       Append(removal_indexes, i - 1))
    ELSE IF str_len(proposition_string) = 2 THEN
      FindActualValues(proposition_stack, i + 1,
                       set_value(values,
                                 proposition_string[Len(proposition_string)],
                                 <<FALSE>>),
                       Append(removal_indexes, i - 1))
    ELSE FindActualValues(proposition_stack, i + 1, values, removal_indexes)

\* Deduction::update_actual_values: the Deduction it leaves, and whether it
\* panicked on the way.
update_actual_values(self) ==
  LET found == FindActualValues(self.proposition_stack, 1,
                                self.proposition_values, <<>>)
      removed == RemoveEach(self.proposition_stack, found.removal_indexes)
  IN  [deduction |-> [proposition_stack |-> removed.vec,
                      proposition_values |-> found.values],
       removal_indexes |-> found.removal_indexes,
       panicked |-> removed.panicked]

\* EvaluationHistory::new
EvaluationHistory_new == <<>>

\* EvaluationHistory::push
EvaluationHistory_push(old_deduction_stacks, deduction) ==
  Append(old_deduction_stacks, deduction)

\* ------------------------------------------------------------ formula inputs

\* The chars of the exhaustively enumerated strings: two propositions, the
\* space, both parentheses, a prefix and an infix operator in ASCII, an
\* infix operator in its Unicode spelling, and an uppercase letter.
Alphabet == {"a", "b", " ", "(", ")", "!", "&", "U+2227", "A"}

\* Every string over Alphabet of at most MaxLen chars.
ShortStrings == UNION {[1..n -> Alphabet] : n \in 0..MaxLen}

\* "(m & b) > j" (test_parse_complex_2, main.rs)
Str_mbj_ascii == <<"(", "m", " ", "&", " ", "b", ")", " ", ">", " ", "j">>
\* "(m U+2227 b) U+2192 j"
Str_mbj_unicode ==
  <<"(", "m", " ", "U+2227", " ", "b", ")", " ", "U+2192", " ", "j">>
\* "a U+2227 b U+2228 (c U+2192 d)" (test_parse_complex_1, test_substitute)
Str_abcd_unicode ==
  <<"a", " ", "U+2227", " ", "b", " ", "U+2228", " ",
    "(", "c", " ", "U+2192", " ", "d", ")">>
\* "a & b | (c > d)"
Str_abcd_ascii ==
  <<"a", " ", "&", " ", "b", " ", "|", " ", "(", "c", " ", ">", " ", "d", ")">>
\* "(f | s) > m" (main.rs)
Str_fsm_ascii == <<"(", "f", " ", "|", " ", "s", ")", " ", ">", " ", "m">>
\* "f > !t" (main.rs)
Str_ft_ascii == <<"f", " ", ">", " ", "!", "t">>

NamedStrings ==
  {Str_mbj_ascii, Str_mbj_unicode, Str_abcd_unicode, Str_abcd_ascii,
   Str_fsm_ascii, Str_ft_ascii}

FormulaInputs == ShortStrings \cup NamedStrings

\* The lowercase letters of a string: the identifiers a ValueMap built for
\* the formula is seeded with (ValueMap::from_proposition_stack).
LowercaseOf(s) == {s[i] : i \in 1..Len(s)} \cap LowerAZ

OptionBool == {<<>>, <<TRUE>>, <<FALSE>>}

\* Every ValueMap seeded for the formula s.
ValueMapsFor(s) == [LowercaseOf(s) -> OptionBool]

\* ----------------------------------------------------------- premise inputs

\* "b > t" (main.rs)
Str_bt_ascii == <<"b", " ", ">", " ", "t">>
\* "f"
Str_f == <<"f">>

\* main's propositions.
MainPropositions ==
  <<Str_mbj_ascii, Str_fsm_ascii, Str_bt_ascii, Str_ft_ascii, Str_f>>

\* The same premises in their Unicode spelling.
MainPropositionsUnicode ==
  <<Str_mbj_unicode,
    <<"(", "f", " ", "U+2228", " ", "s", ")", " ", "U+2192", " ", "m">>,
    <<"b", " ", "U+2192", " ", "t">>,
    <<"f", " ", "U+2192", " ", "U+00AC", "t">>,
    Str_f>>

\* The premises the enumerated Deductions are built from: f, t, !f, !t,
\* U+00AC f, "f > !t", and f with a space after it.
PremisePool ==
  {<<"f">>, <<"t">>, <<"!", "f">>, <<"!", "t">>, <<"U+00AC", "f">>,
   Str_ft_ascii, <<"f", " ">>}

\* Every list of at most MaxPremises premises of the pool, and main's.
PremiseLists ==
  UNION {[1..n -> PremisePool] : n \in 0..MaxPremises}
    \cup {MainPropositions, MainPropositionsUnicode}

\* ------------------------------------------------------------------- state

VARIABLES
  expression_string,   \* the &str given to Expression::parse_str
  expression,          \* the Expression (or the panic) it produced
  premise_string,      \* the &str given to Premise::parse_str
  premise,             \* the Premise (or the panic) it produced
  root_proposition,    \* what get_value_if_root_proposition last returned
  proposition_values,  \* the ValueMap last given to substitute
  propositions,        \* the Vec<&str> given to Deduction::from_strs
  deduction,           \* the Deduction
  origins,             \* for each premise on the stack, its index in propositions
  last_call,           \* the Deduction method that ran last
  panicked,            \* a Deduction method panicked: the program is over
  history,             \* EvaluationHistory::old_deduction_stacks
  run_pc,              \* where the fixpoint loop is
  new_fact_rounds      \* the rounds so far that changed a ValueMap entry

vars ==
  <<expression_string, expression, premise_string, premise, root_proposition,
    proposition_values, propositions, deduction, origins, last_call, panicked,
    history, run_pc, new_fact_rounds>>

NotParsed == [kind |-> "NotParsed"]
NotCalled == [kind |-> "NotCalled"]
Returned(v) == [kind |-> "Returned", value |-> v]

\* No Expression in play.
NoExpression ==
  /\ expression_string = <<>>
  /\ expression = NotParsed

\* No Premise in play.
NoPremise ==
  /\ premise_string = <<>>
  /\ premise = NotParsed
  /\ root_proposition = NotCalled

\* No Deduction in play.
NoDeduction ==
  /\ propositions = <<>>
  /\ deduction = Deduction_new
  /\ origins = <<>>
  /\ last_call = "none"
  /\ panicked = FALSE
  /\ history = EvaluationHistory_new
  /\ run_pc = "idle"
  /\ new_fact_rounds = 0

ExpressionVars == <<expression_string, expression>>
PremiseVars == <<premise_string, premise, root_proposition>>
DeductionVars ==
  <<propositions, deduction, origins, last_call, panicked, history, run_pc,
    new_fact_rounds>>

\* ------------------------------------------- the Expression specification

ExprInit ==
  /\ expression_string \in FormulaInputs
  /\ expression = NotParsed
  /\ proposition_values = [c \in LowercaseOf(expression_string) |-> <<>>]
  /\ NoPremise
  /\ NoDeduction

\* let expression = Expression::parse_str(expression_string)
ExprParse ==
  /\ expression = NotParsed
  /\ expression' = Expression_parse_str(expression_string)
  /\ UNCHANGED <<expression_string, proposition_values, PremiseVars,
                 DeductionVars>>

\* expression.substitute(&proposition_values)
ExprSubstitute ==
  /\ expression.kind = "Expression"
  /\ \E vm \in ValueMapsFor(expression_string) :
       /\ proposition_values' = vm
       /\ expression' = Expression_substitute(expression, vm)
  /\ UNCHANGED <<expression_string, PremiseVars, DeductionVars>>

ExprNext == ExprParse \/ ExprSubstitute

SpecExpression == ExprInit /\ [][ExprNext]_vars

\* ---------------------------------------------- the Premise specification

PremInit ==
  /\ premise_string \in FormulaInputs
  /\ premise = NotParsed
  /\ root_proposition = NotCalled
  /\ proposition_values = [c \in LowercaseOf(premise_string) |-> <<>>]
  /\ NoExpression
  /\ NoDeduction

\* let premise = Premise::parse_str(premise_string)
PremParse ==
  /\ premise = NotParsed
  /\ premise' = Premise_parse_str(premise_string)
  /\ UNCHANGED <<premise_string, root_proposition, proposition_values,
                 ExpressionVars, DeductionVars>>

\* premise.substitute(&proposition_values)
PremSubstitute ==
  /\ premise.kind = "Premise"
  /\ \E vm \in ValueMapsFor(premise_string) :
       /\ proposition_values' = vm
       /\ premise' = Premise_substitute(premise, vm)
  /\ root_proposition' = NotCalled
  /\ UNCHANGED <<premise_string, ExpressionVars, DeductionVars>>

\* premise.get_value_if_root_proposition()
PremGetValue ==
  /\ premise.kind = "Premise"
  /\ root_proposition' = Returned(get_value_if_root_proposition(premise))
  /\ UNCHANGED <<premise_string, premise, proposition_values, ExpressionVars,
                 DeductionVars>>

PremNext == PremParse \/ PremSubstitute \/ PremGetValue

SpecPremise == PremInit /\ [][PremNext]_vars

\* -------------------------------------------- the Deduction specification
\* A Deduction built by from_strs, then update_actual_values and
\* substitute_all (both pub) called in any order, until one panics.

DedInit ==
  /\ propositions \in PremiseLists
  /\ deduction = from_strs(propositions)
  /\ origins = [i \in 1..Len(propositions) |-> i]
  /\ last_call = "from_strs"
  /\ panicked = FALSE
  /\ history = EvaluationHistory_new
  /\ run_pc = "idle"
  /\ new_fact_rounds = 0
  /\ proposition_values = ValueMap_new
  /\ NoExpression
  /\ NoPremise

\* deduction.update_actual_values()
DedUpdateActualValues ==
  /\ ~ panicked
  /\ LET result == update_actual_values(deduction) IN
       /\ deduction' = result.deduction
       /\ origins' = RemoveEach(origins, result.removal_indexes).vec
       /\ panicked' = result.panicked
  /\ last_call' = "update_actual_values"
  /\ UNCHANGED <<propositions, history, run_pc, new_fact_rounds,
                 proposition_values, ExpressionVars, PremiseVars>>

\* deduction.substitute_all()
DedSubstituteAll ==
  /\ ~ panicked
  /\ \E order \in IterationOrders(deduction.proposition_values) :
       deduction' = substitute_all(deduction, order)
  /\ last_call' = "substitute_all"
  /\ UNCHANGED <<propositions, origins, panicked, history, run_pc,
                 new_fact_rounds, proposition_values, ExpressionVars,
                 PremiseVars>>

DedNext == DedUpdateActualValues \/ DedSubstituteAll

SpecDeduction == DedInit /\ [][DedNext]_vars

\* ------------------------------------------ the fixpoint-loop specification
\* run(deduction, history): rounds of update_actual_values, substitute_all
\* and a snapshot pushed to the history, until a round changes no ValueMap
\* entry.  main.rs runs one such round and records nothing; the loop is the
\* design's.

RunInit ==
  /\ propositions \in PremiseLists
  /\ deduction = from_strs(propositions)
  /\ origins = [i \in 1..Len(propositions) |-> i]
  /\ last_call = "from_strs"
  /\ panicked = FALSE
  /\ history = EvaluationHistory_new
  /\ run_pc = "running"
  /\ new_fact_rounds = 0
  /\ proposition_values = ValueMap_new
  /\ NoExpression
  /\ NoPremise

\* One round of the loop.
RunRound ==
  /\ run_pc = "running"
  /\ LET result == update_actual_values(deduction)
         changed == result.deduction.proposition_values
                      # deduction.proposition_values
     IN  /\ origins' = RemoveEach(origins, result.removal_indexes).vec
         /\ panicked' = result.panicked
         /\ new_fact_rounds' = new_fact_rounds + (IF changed THEN 1 ELSE 0)
         /\ IF result.panicked THEN
              /\ deduction' = result.deduction
              /\ last_call' = "update_actual_values"
              /\ history' = history
              /\ run_pc' = "panicked"
            ELSE
              /\ \E order \in IterationOrders(
                                result.deduction.proposition_values) :
                   deduction' = substitute_all(result.deduction, order)
              /\ last_call' = "substitute_all"
              /\ history' = EvaluationHistory_push(history, deduction')
              /\ run_pc' = IF changed THEN "running" ELSE "stable"
  /\ UNCHANGED <<propositions, proposition_values, ExpressionVars,
                 PremiseVars>>

RunNext == RunRound

SpecRun == RunInit /\ [][RunNext]_vars /\ WF_vars(RunNext)

\* ------------------------------------------------- notions the claims use

NotChars == {"U+00AC", "!"}
BinaryChars == {"U+2227", "&", "U+2228", "|", "U+2192", ">"}
UnicodeOperators == {"U+00AC", "U+2227", "U+2228", "U+2192"}
ValidChars == {" ", "(", ")"} \cup NotChars \cup BinaryChars \cup LowerAZ

\* The ASCII spelling of a formula: each operator glyph by its ASCII char.
ToAscii(s) ==
  [i \in 1..Len(s) |->
     IF s[i] = "U+00AC" THEN "!"
     ELSE IF s[i] = "U+2227" THEN "&"
     ELSE IF s[i] = "U+2228" THEN "|"
     ELSE IF s[i] = "U+2192" THEN ">"
     ELSE s[i]]

IsAsciiSpelling(s) == \A i \in 1..Len(s) : s[i] \notin UnicodeOperators

IsNotSpace(c) == c # " "

\* A well-formed formula, spaces apart: operands joined by binary operators,
\* an operand being a letter or a parenthesised formula under any number of
\* negations.  WfFormula and WfOperand give the position after the phrase
\* read from position k of the tokens t, or 0.
RECURSIVE WfFormula(_, _)
RECURSIVE WfOperand(_, _)
WfOperand(t, k) ==
  IF k > Len(t) THEN 0
  ELSE IF t[k] \in NotChars THEN WfOperand(t, k + 1)
  ELSE IF t[k] \in LowerAZ THEN k + 1
  ELSE IF t[k] = "(" THEN
    LET e == WfFormula(t, k + 1)
    IN  IF e # 0 /\ e <= Len(t) /\ t[e] = ")" THEN e + 1 ELSE 0
  ELSE 0

WfFormula(t, k) ==
  LET e == WfOperand(t, k)
  IN  IF e = 0 THEN 0
      ELSE IF e <= Len(t) /\ t[e] \in BinaryChars THEN WfFormula(t, e + 1)
      ELSE e

WellFormed(s) ==
  LET t == SelectSeq(s, IsNotSpace) IN WfFormula(t, 1) = Len(t) + 1

\* The parenthesis depth after the first k chars of s.
RECURSIVE DepthAt(_, _)
DepthAt(s, k) ==
  IF k = 0 THEN 0
  ELSE DepthAt(s, k - 1)
       + (IF s[k] = "(" THEN 1 ELSE IF s[k] = ")" THEN -1 ELSE 0)

Balanced(s) ==
  /\ \A k \in 1..Len(s) : DepthAt(s, k) >= 0
  /\ DepthAt(s, Len(s)) = 0

\* An Expression's node sequence without the origin strings.
RECURSIVE NodeShapes(_)
NodeShapes(nodes) ==
  [i \in 1..Len(nodes) |->
     IF nodes[i].kind = "Subexpression" THEN
       [kind |-> "Subexpression", nodes |-> NodeShapes(nodes[i].expr.nodes)]
     ELSE nodes[i]]

\* No TruthValue node at any level.  parse_str pushes none and substitute
\* changes a node only into a TruthValue, so an Expression without one is
\* still what parse_str returned.
RECURSIVE NoTruthValue(_)
NoTruthValue(nodes) ==
  \A i \in 1..Len(nodes) :
    /\ nodes[i].kind # "TruthValue"
    /\ nodes[i].kind = "Subexpression" => NoTruthValue(nodes[i].expr.nodes)

AsParsed ==
  /\ expression.kind = "Expression"
  /\ NoTruthValue(expression.nodes)

\* ------------------------------------------------------------------ claims

\* C1 (as claimed): a formula's Unicode spelling and its ASCII spelling parse
\* to structurally identical node sequences.
C1_AsciiUnicodeSameStructure ==
  (/\ AsParsed
   /\ WellFormed(expression_string))
  => LET ascii == Expression_parse_str(ToAscii(expression_string))
     IN  /\ ascii.kind = "Expression"
         /\ NodeShapes(expression.nodes) = NodeShapes(ascii.nodes)

\* C2 (as claimed): in a formula with balanced parentheses the first '(' (at
\* position k, its match by depth count at position m) yields exactly one
\* Subexpression holding the parse of the text strictly between them, after
\* the nodes of the text before it, and the scan resumes right after m: the
\* nodes that follow are the parse of the text after m.
C2_GroupThenResumeAfterClose ==
  (/\ AsParsed
   /\ Balanced(expression_string)
   /\ \E k \in 1..Len(expression_string) : expression_string[k] = "(")
  => LET s == expression_string
         k == CHOOSE i \in 1..Len(s) :
                s[i] = "(" /\ \A j \in 1..(i - 1) : s[j] # "("
         m == CHOOSE i \in (k + 1)..Len(s) :
                /\ DepthAt(s, i) = DepthAt(s, k - 1)
                /\ \A j \in k..(i - 1) : DepthAt(s, j) > DepthAt(s, k - 1)
         before == Expression_parse_str(SubSeq(s, 1, k - 1))
         inside == Expression_parse_str(SubSeq(s, k + 1, m - 1))
         after == Expression_parse_str(SubSeq(s, m + 1, Len(s)))
     IN  NodeShapes(expression.nodes)
           = NodeShapes(before.nodes)
             \o << [kind |-> "Subexpression",
                    nodes |-> NodeShapes(inside.nodes)] >>
             \o NodeShapes(after.nodes)

\* C3: substitute turns each Proposition whose value is known into the
\* TruthValue of that value, leaves every other node as it is, does the same
\* inside every Subexpression, and keeps the number and order of the nodes
\* at every level.
RECURSIVE SubstitutedFrom(_, _, _)
SubstitutedFrom(after, before, facts) ==
  /\ Len(after) = Len(before)
  /\ \A i \in 1..Len(before) :
       IF before[i].kind = "Proposition" THEN
         IF facts[before[i].id] = <<>> THEN after[i] = before[i]
         ELSE after[i] = [kind |-> "TruthValue",
                          value |-> facts[before[i].id][1]]
       ELSE IF before[i].kind = "Subexpression" THEN
         /\ after[i].kind = "Subexpression"
         /\ SubstitutedFrom(after[i].expr.nodes, before[i].expr.nodes, facts)
       ELSE after[i] = before[i]

C3_SubstituteOnlyReclassifies ==
  [][(expression.kind = "Expression" /\ expression'.kind = "Expression")
       => SubstitutedFrom(expression'.nodes, expression.nodes,
                          proposition_values')]_vars

\* C3 witness: test_substitute's case, a known true at the top level, a
\* known false inside the subexpression, the unknown b and d left alone.
C3_Witness ==
  /\ expression_string = Str_abcd_unicode
  /\ expression.kind = "Expression"
  /\ proposition_values
       = [c \in {"a", "b", "c", "d"} |->
            IF c = "a" THEN <<TRUE>> ELSE IF c = "c" THEN <<FALSE>> ELSE <<>>]
  /\ Len(expression.nodes) = 5
  /\ expression.nodes[1] = ExpressionNode_TruthValue(TRUE)
  /\ expression.nodes[3] = ExpressionNode_Proposition("b")
  /\ expression.nodes[5].kind = "Subexpression"
  /\ expression.nodes[5].expr.nodes[1] = ExpressionNode_TruthValue(FALSE)
  /\ expression.nodes[5].expr.nodes[3] = ExpressionNode_Proposition("d")

\* C4: get_value_if_root_proposition returns (id, true) exactly for the one
\* node Proposition(id), (id, false) exactly for the two nodes Negation,
\* Proposition(id), and nothing for every other shape.
C4_RootPropositionShapes ==
  root_proposition.kind = "Returned"
  => /\ \A id \in LowerAZ :
          /\ (root_proposition.value = << <<id, TRUE>> >>)
               <=> (premise.nodes = << PremiseNode_Proposition(id) >>)
          /\ (root_proposition.value = << <<id, FALSE>> >>)
               <=> (premise.nodes
                      = << PremiseNode_Negation, PremiseNode_Proposition(id) >>)
     /\ (root_proposition.value = <<>>)
          <=> ~ \E id \in LowerAZ :
                  \/ premise.nodes = << PremiseNode_Proposition(id) >>
                  \/ premise.nodes
                       = << PremiseNode_Negation, PremiseNode_Proposition(id) >>

\* C4 witness: a negated proposition gave (id, false).
C4_Witness ==
  /\ root_proposition = Returned(<< <<"a", FALSE>> >>)
  /\ premise.kind = "Premise"
  /\ premise.nodes = << PremiseNode_Negation, PremiseNode_Proposition("a") >>

\* The premise stack and the ValueMap of the Deduction.
Stack == deduction.proposition_stack
Values == deduction.proposition_values

PropositionCount ==
  Cardinality(DOMAIN from_strs(propositions).proposition_values)

\* The rounds the loop has run: each pushes a snapshot, but for one that
\* panics.
Rounds == Len(history) + (IF run_pc = "panicked" THEN 1 ELSE 0)

Stable ==
  /\ ~ panicked
  /\ update_actual_values(deduction).deduction = deduction
  /\ \A order \in IterationOrders(Values) :
       substitute_all(deduction, order) = deduction

\* C7 (as claimed): on main's premises a stable state holds f = true,
\* t = false, m = true, b = false, j = true and s unknown.
C7_MainPremisesReachTheFacts ==
  (/\ propositions \in {MainPropositions, MainPropositionsUnicode}
   /\ Stable)
  => /\ Values["f"] = <<TRUE>>
     /\ Values["t"] = <<FALSE>>
     /\ Values["m"] = <<TRUE>>
     /\ Values["b"] = <<FALSE>>
     /\ Values["j"] = <<TRUE>>
     /\ Values["s"] = <<>>

\* C8 (as claimed): update_actual_values never silently overwrites: no known
\* entry is replaced by the opposite value, and every fact the call extracts
\* is the entry the call leaves (two opposite facts for one proposition
\* cannot both be).  update_actual_values returns nothing and a Deduction
\* has no field for a contradiction, so reporting one is no outcome of the
\* code.
C8_NoSilentOverwrite ==
  [][last_call' = "update_actual_values" =>
       /\ \A c \in DOMAIN Values :
            Values[c] # <<>> => Values'[c] = Values[c]
       /\ \A i \in 1..Len(Stack) :
            LET proposition_string == get_string(Stack[i]) IN
            /\ str_len(proposition_string) = 1 =>
                 Values'[proposition_string[1]] = <<TRUE>>
            /\ str_len(proposition_string) = 2 =>
                 Values'[proposition_string[Len(proposition_string)]]
                   = <<FALSE>>]_vars

\* The position of the first char of s that no arm but the panic accepts.
FirstInvalid(s) ==
  CHOOSE i \in 1..Len(s) :
    s[i] \notin ValidChars /\ \A j \in 1..(i - 1) : s[j] \in ValidChars

\* C9 (as claimed): a formula holding an invalid char fails to parse, and the
\* failure names that char and its position.
C9_InvalidCharFailsWithPosition ==
  (/\ expression # NotParsed
   /\ \E i \in 1..Len(expression_string) :
        expression_string[i] \notin ValidChars)
  => /\ expression.kind = "Panic"
     /\ expression.c = expression_string[FirstInvalid(expression_string)]
     /\ "position" \in DOMAIN expression
     /\ expression.position = FirstInvalid(expression_string)

\* C10 (as claimed): a formula whose parentheses do not balance fails to
\* parse.
C10_UnbalancedFails ==
  (/\ expression # NotParsed
   /\ \A i \in 1..Len(expression_string) :
        expression_string[i] \in ValidChars
   /\ ~ Balanced(expression_string))
  => expression.kind = "Panic"

\* The proposition identifiers of the input premises.
InputIdentifiers ==
  UNION {LowercaseOf(propositions[i]) : i \in 1..Len(propositions)}

\* The proposition identifiers still on the premise stack.
StackIdentifiers ==
  UNION {LowercaseOf(get_string(Stack[i])) : i \in 1..Len(Stack)}

\* C11 (as claimed): from_strs seeds an unknown entry for every proposition
\* identifier of the premises, and after any calls every identifier still on
\* the stack has an entry and every key is a proposition identifier of the
\* input premises.
C11_KeysAreTheInputIdentifiers ==
  /\ last_call = "from_strs" => Values = [c \in InputIdentifiers |-> <<>>]
  /\ StackIdentifiers \subseteq DOMAIN Values
  /\ DOMAIN Values \subseteq InputIdentifiers

\* The Unicode spelling of a formula: each ASCII operator by its glyph.
ToUnicode(s) ==
  [i \in 1..Len(s) |->
     IF s[i] = "!" THEN "U+00AC"
     ELSE IF s[i] = "&" THEN "U+2227"
     ELSE IF s[i] = "|" THEN "U+2228"
     ELSE IF s[i] = ">" THEN "U+2192"
     ELSE s[i]]

\* The position of the ')' that closes the '(' at position k of s.
MatchOf(s, k) ==
  CHOOSE m \in (k + 1)..Len(s) :
    /\ DepthAt(s, m) = DepthAt(s, k - 1)
    /\ \A j \in k..(m - 1) : DepthAt(s, j) > DepthAt(s, k - 1)

\* A canonical formula: well formed; one space on each side of a binary
\* operator and no other space; no parentheses around the whole formula or
\* around a single operand.
Canonical(s) ==
  /\ WellFormed(s)
  /\ s[1] # " " /\ s[Len(s)] # " "
  /\ \A i \in 1..(Len(s) - 1) :
       /\ (s[i] # " " /\ s[i + 1] # " ")
            => (s[i] \in NotChars \/ s[i] = "(" \/ s[i + 1] = ")")
       /\ (s[i] = " ")
            => /\ s[i + 1] # " " /\ s[i + 1] # ")"
               /\ i > 1 /\ s[i - 1] \notin NotChars \cup {"("}
  /\ \A k \in 1..Len(s) :
       s[k] = "(" =>
         /\ ~ (k = 1 /\ MatchOf(s, k) = Len(s))
         /\ \E j \in (k + 1)..(MatchOf(s, k) - 1) :
              s[j] \in BinaryChars /\ DepthAt(s, j) = DepthAt(s, k)

\* C12 (as claimed): the rendered text of an Expression has its nodes one
\* space apart but for a Not operator, which is followed at once by the next
\* node, and writes the operators as glyphs; and rendering the parse of a
\* canonical formula, in either spelling, gives the formula's Unicode
\* spelling.
C12_RenderParsedIsUnicodeCanonical ==
  expression.kind = "Expression" =>
    LET f == Expression_fmt(expression) IN
    /\ \A i \in 1..Len(f) :
         /\ f[i] \notin {"!", "&", "|", ">"}
         /\ f[i] = " " => (i > 1 /\ i < Len(f) /\ f[i + 1] # " "
                           /\ f[i - 1] # "U+00AC")
    /\ (AsParsed /\ Canonical(expression_string))
         => f = ToUnicode(expression_string)

\* A premise update_actual_values reads no value from: its string is
\* neither 1 nor 2 bytes long.
IsUndetermined(proposition) ==
  str_len(get_string(proposition)) \notin {1, 2}

\* C13 (as claimed): update_actual_values never fails, and the stack it
\* leaves is the stack it found without the premises it read a value from,
\* the others kept in their order, however many it read a value from.
C13_UpdateRemovesExactlyTheDetermined ==
  [][last_call' = "update_actual_values" =>
       /\ ~ panicked'
       /\ Stack' = SelectSeq(Stack, IsUndetermined)]_vars

\* What the unit-fact extractor (Premise::get_value_if_root_proposition on
\* the parsed premise) recognises in a premise text: nothing where the text
\* does not parse.
UnitFact(proposition_string) ==
  LET parsed == Premise_parse_str(proposition_string)
  IN  IF parsed.kind = "Premise" THEN get_value_if_root_proposition(parsed)
      ELSE <<>>

\* The entries update_actual_values writes for one premise.
WrittenFor(proposition) ==
  FindActualValues(<<proposition>>, 1, ValueMap_new, <<>>).values

\* C14 (as claimed): for each premise on the stack, update_actual_values
\* writes (id, true) exactly where the extractor recognises the proposition
\* id, (id, false) exactly where it recognises the negation of id, and
\* nothing for any other premise.
C14_WritesExactlyTheUnitFacts ==
  [][last_call' = "update_actual_values" =>
       \A i \in 1..Len(Stack) :
         LET fact == UnitFact(get_string(Stack[i])) IN
         WrittenFor(Stack[i])
           = IF fact = <<>> THEN ValueMap_new
             ELSE set_value(ValueMap_new, fact[1][1], <<fact[1][2]>>)]_vars

\* C15: the ValueMap is monotone: no call makes a known entry unknown or
\* drops it, and substitute_all changes no entry at all.
C15_ValueMapMonotone ==
  [][/\ \A c \in DOMAIN Values :
          Values[c] # <<>> => (c \in DOMAIN Values' /\ Values'[c] # <<>>)
     /\ last_call' = "substitute_all" => Values' = Values]_vars

\* C15 witness: substitute_all has written the known f = true into a
\* premise still on the stack, and f is still known.
C15_Witness ==
  /\ last_call = "substitute_all"
  /\ "f" \in DOMAIN Values
  /\ Values["f"] = <<TRUE>>
  /\ \E i \in 1..Len(Stack) :
       \E k \in 1..(Len(get_string(Stack[i])) - 3) :
         SubSeq(get_string(Stack[i]), k, k + 3) = <<"T", "R", "U", "E">>

====
